---- MODULE Spec2Model ----
(***************************************************************************)
(* Calculator microservice (src/index.js): the validator handleErrors, the *)
(* seven GET handlers, the process-wide global n2 and the diagnostic log.  *)
(*                                                                         *)
(* Numbers.  A JavaScript number is modelled as a record                   *)
(*   [kind, neg, digits, n]                                                *)
(* kind = "nan" | "inf" | "fin"; a finite value is                         *)
(*   (-1)^neg * 0.d1 d2 ... dk * 10^n                                      *)
(* with digits = <<d1..dk>> free of leading and trailing zeros (<<>> is    *)
(* zero, so -0 is [neg |-> TRUE, digits |-> <<>>]).  This is the shortest  *)
(* decimal that round-trips, i.e. the digit string Number::toString works  *)
(* from; it is exact for the texts used here (at most 15 significant       *)
(* digits, or integers up to 2^53).  Texts are sequences of one-character  *)
(* strings.                                                                *)
(***************************************************************************)
EXTENDS Integers, Sequences, FiniteSets, TLC

\* ------------------------------------------------------------------ text
DigitChars == {"0", "1", "2", "3", "4", "5", "6", "7", "8", "9"}

DigitOf(c) ==
  CASE c = "0" -> 0 [] c = "1" -> 1 [] c = "2" -> 2 [] c = "3" -> 3
    [] c = "4" -> 4 [] c = "5" -> 5 [] c = "6" -> 6 [] c = "7" -> 7
    [] c = "8" -> 8 [] c = "9" -> 9

CharOf(d) == <<"0", "1", "2", "3", "4", "5", "6", "7", "8", "9">>[d + 1]

Drop(s, k) == SubSeq(s, k + 1, Len(s))

StartsWith(s, p) == Len(s) >= Len(p) /\ SubSeq(s, 1, Len(p)) = p

RECURSIVE TakeDigits(_)
\* the longest prefix of s made of decimal digits, as digit values
TakeDigits(s) ==
  IF s # <<>> /\ Head(s) \in DigitChars
  THEN <<DigitOf(Head(s))>> \o TakeDigits(Tail(s))
  ELSE <<>>

RECURSIVE SkipWhite(_)
SkipWhite(s) == IF s # <<>> /\ Head(s) = " " THEN SkipWhite(Tail(s)) ELSE s

RECURSIVE StripLeadingZeros(_)
StripLeadingZeros(ds) ==
  IF ds # <<>> /\ Head(ds) = 0 THEN StripLeadingZeros(Tail(ds)) ELSE ds

RECURSIVE StripTrailingZeros(_)
StripTrailingZeros(ds) ==
  IF ds # <<>> /\ ds[Len(ds)] = 0
  THEN StripTrailingZeros(SubSeq(ds, 1, Len(ds) - 1))
  ELSE ds

RECURSIVE DigitsToInt(_)
DigitsToInt(ds) ==
  IF ds = <<>> THEN 0 ELSE 10 * DigitsToInt(SubSeq(ds, 1, Len(ds) - 1)) + ds[Len(ds)]

RECURSIVE IntToDigits(_)
IntToDigits(i) ==
  IF i < 10 THEN <<i>> ELSE IntToDigits(i \div 10) \o <<i % 10>>

RECURSIVE Zeros(_)
Zeros(k) == IF k <= 0 THEN <<>> ELSE <<0>> \o Zeros(k - 1)

Chars(ds) == [i \in 1..Len(ds) |-> CharOf(ds[i])]

\* --------------------------------------------------------------- numbers
NaN == [kind |-> "nan", neg |-> FALSE, digits |-> <<>>, n |-> 0]

Inf(neg) == [kind |-> "inf", neg |-> neg, digits |-> <<>>, n |-> 0]

Zero(neg) == [kind |-> "fin", neg |-> neg, digits |-> <<>>, n |-> 0]

\* the finite value (-1)^neg * 0.ds * 10^n, normalised
Fin(neg, ds, n) ==
  LET lead == StripLeadingZeros(ds)
      body == StripTrailingZeros(lead)
  IN  IF body = <<>> THEN Zero(neg)
      ELSE [kind |-> "fin", neg |-> neg, digits |-> body,
            n |-> n - (Len(ds) - Len(lead))]

FromInt(i) ==
  IF i < 0 THEN Fin(TRUE, IntToDigits(-i), Len(IntToDigits(-i)))
  ELSE Fin(FALSE, IntToDigits(i), Len(IntToDigits(i)))

IsZero(x) == x.kind = "fin" /\ x.digits = <<>>

RECURSIVE DigitsLess(_, _)
\* 0.a < 0.b for digit strings without trailing zeros
DigitsLess(a, b) ==
  IF b = <<>> THEN FALSE
  ELSE IF a = <<>> THEN TRUE
  ELSE IF Head(a) # Head(b) THEN Head(a) < Head(b)
  ELSE DigitsLess(Tail(a), Tail(b))

\* |x| < |y| for non-NaN x, y
MagLess(x, y) ==
  IF x.kind = "inf" THEN FALSE
  ELSE IF y.kind = "inf" THEN TRUE
  ELSE IF IsZero(y) THEN FALSE
  ELSE IF IsZero(x) THEN TRUE
  ELSE IF x.n # y.n THEN x.n < y.n
  ELSE DigitsLess(x.digits, y.digits)

\* the relational operator x < y on numbers (false when either is NaN,
\* and -0 is not less than +0)
Less(x, y) ==
  IF x.kind = "nan" \/ y.kind = "nan" THEN FALSE
  ELSE IF IsZero(x) /\ IsZero(y) THEN FALSE
  ELSE IF x.neg /\ ~y.neg THEN TRUE
  ELSE IF ~x.neg /\ y.neg THEN FALSE
  ELSE IF x.neg THEN MagLess(y, x)
  ELSE MagLess(x, y)

\* the loose equality x == y on numbers
NumEq(x, y) ==
  /\ x.kind # "nan" /\ y.kind # "nan"
  /\ ~Less(x, y) /\ ~Less(y, x)

isNaN(x) == x.kind = "nan"

MAX_SAFE_INTEGER ==
  Fin(FALSE, <<9, 0, 0, 7, 1, 9, 9, 2, 5, 4, 7, 4, 0, 9, 9, 1>>, 16)

MIN_SAFE_INTEGER ==
  Fin(TRUE, <<9, 0, 0, 7, 1, 9, 9, 2, 5, 4, 7, 4, 0, 9, 9, 1>>, 16)

\* Number.MAX_VALUE is 1.7976931348623157e308; a decimal at or above the
\* midpoint to the next binade rounds to Infinity
OverflowDigits == <<1, 7, 9, 7, 6, 9, 3, 1, 3, 4, 8, 6, 2, 3, 1, 5, 8>>

\* rounding of an exact decimal to a double: overflow to Infinity and
\* underflow to zero
RoundToDouble(x) ==
  IF x.kind # "fin" \/ IsZero(x) THEN x
  ELSE IF x.n > 309 \/ (x.n = 309 /\ ~DigitsLess(x.digits, OverflowDigits))
       THEN Inf(x.neg)
  ELSE IF x.n < -323 THEN Zero(x.neg)
  ELSE x

\* ------------------------------------------------- parseFloat / ToNumber
\* the ExponentPart of a StrDecimalLiteral, read from the front of s once
\* the integer digits ip and the fraction digits fp are known; an "e" that
\* no digit follows is not part of the literal
ParseExponent(neg, ip, fp, s) ==
  LET isE   == s # <<>> /\ Head(s) \in {"e", "E"}
      esign == isE /\ Len(s) >= 2 /\ s[2] \in {"+", "-"}
      ed    == IF isE THEN TakeDigits(Drop(s, IF esign THEN 2 ELSE 1)) ELSE <<>>
      ev    == IF esign /\ s[2] = "-" THEN -DigitsToInt(ed) ELSE DigitsToInt(ed)
  IN  IF ed = <<>>
      THEN [value |-> RoundToDouble(Fin(neg, ip \o fp, Len(ip))), rest |-> s]
      ELSE [value |-> RoundToDouble(Fin(neg, ip \o fp, Len(ip) + ev)),
            rest |-> Drop(s, (IF esign THEN 2 ELSE 1) + Len(ed))]

\* the optional "." and fraction digits after the integer digits ip
ParseFraction(neg, ip, s) ==
  IF s # <<>> /\ Head(s) = "."
  THEN ParseExponent(neg, ip, TakeDigits(Tail(s)),
                     Drop(s, 1 + Len(TakeDigits(Tail(s)))))
  ELSE ParseExponent(neg, ip, <<>>, s)

\* StrDecimalLiteral read from the front of s (after an optional sign):
\* [value, rest], value NaN when no literal starts there
ParseUnsigned(neg, s) ==
  IF StartsWith(s, <<"I", "n", "f", "i", "n", "i", "t", "y">>)
  THEN [value |-> Inf(neg), rest |-> Drop(s, 8)]
  ELSE IF TakeDigits(s) = <<>> /\ (Len(s) < 2 \/ s[1] # "." \/ s[2] \notin DigitChars)
  THEN [value |-> NaN, rest |-> s]
  ELSE ParseFraction(neg, TakeDigits(s), Drop(s, Len(TakeDigits(s))))

ParseSigned(s) ==
  IF s # <<>> /\ Head(s) \in {"+", "-"}
  THEN ParseUnsigned(Head(s) = "-", Tail(s))
  ELSE ParseUnsigned(FALSE, s)

Absent == <<"undefined">>

\* parseFloat(req.query.x): an absent parameter is undefined, whose string
\* form "undefined" has no numeric prefix; otherwise the longest numeric
\* prefix after leading white space, trailing text ignored
parseFloat(t) ==
  IF t = Absent THEN NaN ELSE ParseSigned(SkipWhite(t)).value

\* ToNumber(string), used by the comparison of a string with a number:
\* the whole string must be a literal, and the empty string is 0
ToNumber(s) ==
  LET t == SkipWhite(s)
      r == ParseSigned(t)
  IN  IF t = <<>> THEN Zero(FALSE)
      ELSE IF SkipWhite(r.rest) = <<>> THEN r.value
      ELSE NaN

\* -------------------------------------------------------------- toString
ExponentChars(e) ==
  <<"e", IF e < 0 THEN "-" ELSE "+">> \o Chars(IntToDigits(IF e < 0 THEN -e ELSE e))

\* Number::toString(x) in radix 10 for x > 0 finite, from its k digits and
\* point position n
PositiveToString(ds, n) ==
  LET k == Len(ds)
  IN  IF k <= n /\ n <= 21 THEN Chars(ds \o Zeros(n - k))
      ELSE IF 0 < n /\ n <= 21
           THEN Chars(SubSeq(ds, 1, n)) \o <<".">> \o Chars(Drop(ds, n))
      ELSE IF -6 < n /\ n <= 0
           THEN <<"0", ".">> \o Chars(Zeros(-n) \o ds)
      ELSE IF k = 1 THEN Chars(ds) \o ExponentChars(n - 1)
      ELSE <<CharOf(ds[1]), ".">> \o Chars(Tail(ds)) \o ExponentChars(n - 1)

toString(x) ==
  IF x.kind = "nan" THEN <<"N", "a", "N">>
  ELSE IF IsZero(x) THEN <<"0">>
  ELSE (IF x.neg THEN <<"-">> ELSE <<>>) \o
       (IF x.kind = "inf" THEN <<"I", "n", "f", "i", "n", "i", "t", "y">>
        ELSE PositiveToString(x.digits, x.n))

\* /\d+\.\d+/.test(s): somewhere a digit, a dot, a digit
FractionPattern(s) ==
  \E i \in 1..(Len(s) - 2) :
    s[i] \in DigitChars /\ s[i + 1] = "." /\ s[i + 2] \in DigitChars

\* n2 < 0 with n2 a string: the string is converted with ToNumber
StringLessZero(s) == Less(ToNumber(s), Zero(FALSE))

\* ------------------------------------------------------------ arithmetic
MaxExactDigits == 3

\* x is an integer of at most MaxExactDigits digits (and not -0)
IsSmallInt(x) ==
  /\ x.kind = "fin"
  /\ \/ x.digits = <<>> /\ ~x.neg
     \/ x.digits # <<>> /\ Len(x.digits) <= x.n /\ x.n <= MaxExactDigits

ToInt(x) ==
  LET m == DigitsToInt(x.digits \o Zeros(x.n - Len(x.digits)))
  IN  IF x.neg THEN -m ELSE m

Abs(i) == IF i < 0 THEN -i ELSE i

RECURSIVE IntPow(_, _)
IntPow(b, e) == IF e = 0 THEN 1 ELSE b * IntPow(b, e - 1)

\* the double an arithmetic expression did not have to be evaluated to
Expr(op, a, b) == [kind |-> "expr", op |-> op, a |-> a, b |-> b]

\* a zero result carries the sign IEEE-754 gives it
SignedInt(i, negZero) == IF i = 0 THEN Zero(negZero) ELSE FromInt(i)

\* num1 op num2 in IEEE-754 double arithmetic: computed exactly when both
\* operands are small integers and the result is one, kept as the
\* expression otherwise
Compute(op, a, b) ==
  IF ~(IsSmallInt(a) /\ IsSmallInt(b)) THEN Expr(op, a, b)
  ELSE
    LET x == ToInt(a)
        y == ToInt(b)
    IN  CASE op = "+" -> FromInt(x + y)
          [] op = "-" -> FromInt(x - y)
          [] op = "*" -> SignedInt(x * y, (x < 0) # (y < 0))
          [] op = "/" -> IF y = 0
                         THEN (IF x = 0 THEN NaN ELSE Inf(x < 0))
                         ELSE IF Abs(x) % Abs(y) = 0
                         THEN SignedInt((Abs(x) \div Abs(y)) *
                                          (IF (x < 0) # (y < 0) THEN -1 ELSE 1),
                                        (x < 0) # (y < 0))
                         ELSE Expr(op, a, b)
          [] op = "%" -> IF y = 0 THEN NaN
                         ELSE SignedInt((Abs(x) % Abs(y)) *
                                          (IF x < 0 THEN -1 ELSE 1), x < 0)
          [] op = "^" -> IF y >= 0 /\ y <= 2 * MaxExactDigits /\ Abs(x) <= 10
                         THEN FromInt(IntPow(x, y))
                         ELSE Expr(op, a, b)
          [] op = "sqrt" -> IF \E r \in 0..x : r * r = x
                            THEN FromInt(CHOOSE r \in 0..x : r * r = x)
                            ELSE Expr(op, a, b)

\* ---------------------------------------------------------------- logger
ErrorRecord(text) == [level |-> "error", message |-> <<text>>]

\* logger.info(`<label>: ${num1} <op> ${num2} = ${result}`); the record of
\* /sqrt carries num1 alone
InfoRecord(label, operands, result) ==
  [level |-> "info", message |-> <<label>> \o operands \o <<result>>]

\* ------------------------------------------------------------- validator
undefined == -1

\* the global n2 before its first assignment
Undeclared == <<"undeclared">>

\* what a call of handleErrors leaves behind: the value returned, the global
\* n2 and the records it logged
Returned(code, g, records) == [code |-> code, n2 |-> g, records |-> records]

NegativeExponentialText ==
  "Negative exponential error: Base is negative and exponent is a fraction"

ZeroExponentialText ==
  "Zero exponential error: Base is 0 and exponent is a negative fraction"

\* the two tests of the "^" branch on the string s the global n2 holds
ExponentTests(num1, s, g) ==
  IF Less(num1, Zero(FALSE)) /\ FractionPattern(s)
  THEN Returned(4, g, <<ErrorRecord(NegativeExponentialText)>>)
  ELSE IF NumEq(num1, Zero(FALSE)) /\ StringLessZero(s) /\ FractionPattern(s)
  THEN Returned(5, g, <<ErrorRecord(ZeroExponentialText)>>)
  ELSE Returned(undefined, g, <<>>)

\* (mutant) n2 assigned only while it has no value yet: a later request is
\* tested against the exponent of an earlier one
ExponentChecksStale(num1, num2, g) ==
  IF g = Undeclared
  THEN ExponentTests(num1, toString(num2), toString(num2))
  ELSE ExponentTests(num1, g, g)

\* handleErrors, the operator "^": the global n2 is assigned, then read by
\* both tests
ExponentChecks(num1, num2, g) ==
  ExponentTests(num1, toString(num2), toString(num2))

\* handleErrors, the operator "sqrt"
SqrtChecks(num1, g) ==
  IF Less(num1, Zero(FALSE))
  THEN Returned(6, g, <<ErrorRecord("Negative square root: Input number is negative")>>)
  ELSE Returned(undefined, g, <<>>)

\* (mutant) the grouping the comment suggests: either operator, zero num2
DivisionByZeroGrouped(operator, num2) ==
  (operator = "/" \/ operator = "%") /\ NumEq(num2, Zero(FALSE))

\* operator == "/" || operator == "%" && num2 == 0: && binds tighter
DivisionByZero(operator, num2) ==
  operator = "/" \/ (operator = "%" /\ NumEq(num2, Zero(FALSE)))

\* (mutant) >= and <= in place of > and <
OutOfRangeInclusive(num1, num2) ==
  \/ ~Less(num1, MAX_SAFE_INTEGER) \/ ~Less(MIN_SAFE_INTEGER, num1)
  \/ ~Less(num2, MAX_SAFE_INTEGER) \/ ~Less(MIN_SAFE_INTEGER, num2)

OutOfRange(num1, num2) ==
  \/ Less(MAX_SAFE_INTEGER, num1) \/ Less(num1, MIN_SAFE_INTEGER)
  \/ Less(MAX_SAFE_INTEGER, num2) \/ Less(num2, MIN_SAFE_INTEGER)

InvalidInputText == "Invalid input: Input parameters are not numbers"

ZeroDivisionText == "Zero division: Division by 0 is not possible"

RangeExceededText ==
  "Range exceeded: Input parameters have exceeded min/max range limits"

\* (mutant) the range check moved in front of the division check
handleErrorsRangeFirst(operator, num1, num2, g) ==
  IF isNaN(num1) \/ isNaN(num2)
  THEN Returned(1, g, <<ErrorRecord(InvalidInputText)>>)
  ELSE IF OutOfRange(num1, num2)
  THEN Returned(3, g, <<ErrorRecord(RangeExceededText)>>)
  ELSE IF DivisionByZero(operator, num2)
  THEN Returned(2, g, <<ErrorRecord(ZeroDivisionText)>>)
  ELSE IF operator = "^" THEN ExponentChecks(num1, num2, g)
  ELSE IF operator = "sqrt" THEN SqrtChecks(num1, g)
  ELSE Returned(0, g, <<>>)

\* the if / else-if chain; the final else (return 0) belongs to the chain,
\* so the "^" and "sqrt" branches end without a return when their inner
\* checks do not fire
handleErrors(operator, num1, num2, g) ==
  IF isNaN(num1) \/ isNaN(num2)
  THEN Returned(1, g, <<ErrorRecord(InvalidInputText)>>)
  ELSE IF DivisionByZero(operator, num2)
  THEN Returned(2, g, <<ErrorRecord(ZeroDivisionText)>>)
  ELSE IF OutOfRange(num1, num2)
  THEN Returned(3, g, <<ErrorRecord(RangeExceededText)>>)
  ELSE IF operator = "^" THEN ExponentChecks(num1, num2, g)
  ELSE IF operator = "sqrt" THEN SqrtChecks(num1, g)
  ELSE Returned(0, g, <<>>)

\* -------------------------------------------------------------- handlers
\* res.status(400).json({message})
Reject(text) == [status |-> 400, body |-> [message |-> text]]

\* res.json({result})
Accept(result) == [status |-> 200, body |-> [result |-> result]]

\* what a handler run leaves behind: validate, the responses it sent, the
\* records logged during it and the global n2
Handled(v, res, records) ==
  [validate |-> v.code, res |-> res, records |-> v.records \o records,
   n2 |-> v.n2]

\* (mutant) the success branch without its logger.info
SucceedSilent(v, label, op, num1, num2) ==
  Handled(v, <<Accept(Compute(op, num1, num2))>>, <<>>)

\* the final else of every handler: compute, log, answer
Succeed(v, label, op, num1, num2) ==
  LET result == Compute(op, num1, num2)
      operands == IF op = "sqrt" THEN <<num1>> ELSE <<num1, num2>>
  IN  Handled(v, <<Accept(result)>>, <<InfoRecord(label, operands, result)>>)

BinaryNaNMessage == "num1 and num2 must be numbers"

RangeMessage == "Either numbers are too large or too small"

\* Each handler is three steps: parse the query (parseFloat twice), validate
\* (handleErrors), translate the outcome into the response.

\* (mutant) the branches as separate ifs without return: a rejected request
\* runs on into the computation and answers again
PlainTranslateFallThrough(validate, op, label, num1, num2) ==
  LET done == Succeed(validate, label, op, num1, num2)
  IN  IF validate.code = 1
      THEN [done EXCEPT !.res = <<Reject(BinaryNaNMessage)>> \o @]
      ELSE IF validate.code = 3
      THEN [done EXCEPT !.res = <<Reject(RangeMessage)>> \o @]
      ELSE done

\* /add, /sub, /mul: the if-chain on validate
PlainTranslate(validate, op, label, num1, num2) ==
  IF validate.code = 1 THEN Handled(validate, <<Reject(BinaryNaNMessage)>>, <<>>)
  ELSE IF validate.code = 3 THEN Handled(validate, <<Reject(RangeMessage)>>, <<>>)
  ELSE Succeed(validate, label, op, num1, num2)

\* the handlers of /add, /sub and /mul differ in operator and label only
PlainValidate(op, label, num1, num2, g) ==
  PlainTranslate(handleErrors(op, num1, num2, g), op, label, num1, num2)

AddHandler(q1, q2, g) ==
  PlainValidate("+", "Addition", parseFloat(q1), parseFloat(q2), g)

SubHandler(q1, q2, g) ==
  PlainValidate("-", "Subtraction", parseFloat(q1), parseFloat(q2), g)

MulHandler(q1, q2, g) ==
  PlainValidate("*", "Multiplication", parseFloat(q1), parseFloat(q2), g)

\* /div, /mod: the if-chain on validate
DenominatorTranslate(validate, op, label, zeroMessage, num1, num2) ==
  IF validate.code = 1 THEN Handled(validate, <<Reject(BinaryNaNMessage)>>, <<>>)
  ELSE IF validate.code = 2 THEN Handled(validate, <<Reject(zeroMessage)>>, <<>>)
  ELSE IF validate.code = 3 THEN Handled(validate, <<Reject(RangeMessage)>>, <<>>)
  ELSE Succeed(validate, label, op, num1, num2)

\* /div and /mod differ in operator, label and denominator message only
DenominatorValidate(op, label, zeroMessage, num1, num2, g) ==
  DenominatorTranslate(handleErrors(op, num1, num2, g), op, label, zeroMessage,
                       num1, num2)

DivHandler(q1, q2, g) ==
  DenominatorValidate("/", "Division", "Denominator cannot be 0 in division",
                      parseFloat(q1), parseFloat(q2), g)

ModHandler(q1, q2, g) ==
  DenominatorValidate("%", "Modulo", "Denominator cannot be 0 in modulo",
                      parseFloat(q1), parseFloat(q2), g)

\* /exp: the if-chain on validate
ExpTranslate(validate, num1, num2) ==
  IF validate.code = 1 THEN Handled(validate, <<Reject(BinaryNaNMessage)>>, <<>>)
  ELSE IF validate.code = 3 THEN Handled(validate, <<Reject(RangeMessage)>>, <<>>)
  ELSE IF validate.code = 4
  THEN Handled(validate,
               <<Reject("If base is negative, exponent cannot be a fraction")>>, <<>>)
  ELSE IF validate.code = 5
  THEN Handled(validate,
               <<Reject("If base is 0, exponent cannot be a negative fraction")>>, <<>>)
  ELSE Succeed(validate, "Exponent", "^", num1, num2)

ExpValidate(num1, num2, g) ==
  ExpTranslate(handleErrors("^", num1, num2, g), num1, num2)

ExpHandler(q1, q2, g) == ExpValidate(parseFloat(q1), parseFloat(q2), g)

\* /sqrt: the if-chain on validate
SqrtTranslate(validate, num1) ==
  IF validate.code = 1 THEN Handled(validate, <<Reject("num1 must be a number")>>, <<>>)
  ELSE IF validate.code = 3
  THEN Handled(validate, <<Reject("Numbers is too large or too small")>>, <<>>)
  ELSE IF validate.code = 6
  THEN Handled(validate,
               <<Reject("Square root of negative numbers is not supported")>>, <<>>)
  ELSE Succeed(validate, "Square root", "sqrt", num1, Zero(FALSE))

\* /sqrt validates num1 against the placeholder 0
SqrtValidate(num1, g) ==
  SqrtTranslate(handleErrors("sqrt", num1, Zero(FALSE), g), num1)

\* (mutant) /sqrt validating the query's num2 like the binary handlers
SqrtHandlerTwoOperands(q1, q2, g) ==
  SqrtTranslate(handleErrors("sqrt", parseFloat(q1), parseFloat(q2), g),
                parseFloat(q1))

\* /sqrt reads num1 only: the query's num2, if any, is never looked at
SqrtHandler(q1, q2, g) == SqrtValidate(parseFloat(q1), g)

\* ---------------------------------------------------------------- inputs
\* query parameter texts (Absent: the parameter is not in the query)
abcText == <<"a", "b", "c">>

EmptyText == <<>>

TenText == <<"1", "0">>

TenAbcText == <<"1", "0", "a", "b", "c">>

ThreeText == <<"3">>

FiveText == <<"5">>

TwoText == <<"2">>

SixteenText == <<"1", "6">>

NoughtText == <<"0">>

MinusNoughtText == <<"-", "0">>

NoughtPointNoughtText == <<"0", ".", "0">>

MinusTwoText == <<"-", "2">>

MinusThreeText == <<"-", "3">>

MinusFourText == <<"-", "4">>

MinusSevenText == <<"-", "7">>

HalfText == <<"0", ".", "5">>

MinusHalfText == <<"-", "0", ".", "5">>

TwoPointNoughtText == <<"2", ".", "0">>

TinyText == <<"1", "e", "-", "7">>

MinusTinyText == <<"-", "1", "e", "-", "7">>

TinyAndHalfText == <<"1", ".", "5", "e", "-", "7">>

MinusTinyAndHalfText == <<"-", "1", ".", "5", "e", "-", "7">>

HugeText == <<"1", "e", "3", "0", "9">>

MinusHugeText == <<"-", "1", "e", "3", "0", "9">>

MinusInfinityText == <<"-", "I", "n", "f", "i", "n", "i", "t", "y">>

VanishingText == <<"1", "e", "-", "4", "0", "0">>

MaxSafeText ==
  <<"9", "0", "0", "7", "1", "9", "9", "2", "5",
    "4", "7", "4", "0", "9", "9", "1">>

AboveMaxSafeText ==
  <<"9", "0", "0", "7", "1", "9", "9", "2", "5",
    "4", "7", "4", "0", "9", "9", "2">>

MinSafeText ==
  <<"-", "9", "0", "0", "7", "1", "9", "9", "2",
    "5", "4", "7", "4", "0", "9", "9", "1">>

BelowMinSafeText ==
  <<"-", "9", "0", "0", "7", "1", "9", "9", "2",
    "5", "4", "7", "4", "0", "9", "9", "2">>
\* num1 and num2 of the requests to /add, /sub and /mul
PlainNum1 ==
  {Absent, abcText, TenText, TenAbcText, HugeText, MaxSafeText, AboveMaxSafeText,
   MinSafeText, BelowMinSafeText}

PlainNum2 ==
  {abcText, EmptyText, ThreeText, MaxSafeText, AboveMaxSafeText, MinusInfinityText}

\* /sub and /mul run the code of /add with another operator
OtherNum1 == {Absent, TenText, MinSafeText, BelowMinSafeText}

OtherNum2 == {abcText, ThreeText, MinusTwoText, AboveMaxSafeText}

DivNum1 == {abcText, TenText, NoughtText, AboveMaxSafeText}

DivNum2 == {Absent, NoughtText, MinusNoughtText, FiveText, AboveMaxSafeText}

ModNum1 == {abcText, TenText, MinusSevenText, NoughtText, HugeText, AboveMaxSafeText}

ModNum2 ==
  {Absent, ThreeText, MinusThreeText, NoughtText, MinusNoughtText,
   NoughtPointNoughtText, BelowMinSafeText}

ExpNum1 ==
  {abcText, TwoText, TenText, MinusTwoText, NoughtText, MinusNoughtText,
   VanishingText, MaxSafeText, BelowMinSafeText}

ExpNum2 ==
  {Absent, ThreeText, MinusThreeText, TwoPointNoughtText, HalfText, MinusHalfText,
   TinyText, MinusTinyText, TinyAndHalfText, MinusTinyAndHalfText, HugeText}

SqrtNum1 ==
  {Absent, abcText, SixteenText, TwoText, MinusFourText, NoughtText, MinusNoughtText,
   MaxSafeText, MinSafeText, AboveMaxSafeText, BelowMinSafeText, MinusHugeText}

\* /sqrt never reads num2; a request may still carry one
SqrtNum2 == {Absent, abcText}

\* ----------------------------------------------------------------- state
MaxRequests == 2

VARIABLES
  listening,  \* the callback of app.listen has run
  requests,   \* how many requests have been handled
  n2,         \* the global handleErrors assigns without declaring
  log,        \* the diagnostic sink: the level of every record, in order
  sent,       \* the status of every response sent, in order
  last        \* the request handled last, and what its handler did

vars == <<listening, requests, n2, log, sent, last>>

NoRequest ==
  [endpoint |-> "none", num1 |-> Absent, num2 |-> Absent, validate |-> 0,
   res |-> <<>>, records |-> <<>>, before |-> Undeclared]

Init ==
  /\ listening = FALSE
  /\ requests = 0
  /\ n2 = Undeclared
  /\ log = <<>>
  /\ sent = <<>>
  /\ last = NoRequest

\* app.listen(3000, callback): the callback logs the start-up record
Listen ==
  /\ ~listening
  /\ listening' = TRUE
  /\ log' = Append(log, "info")
  /\ UNCHANGED <<requests, n2, sent, last>>

Levels(records) == [i \in 1..Len(records) |-> records[i].level]

Statuses(res) == [i \in 1..Len(res) |-> res[i].status]

\* one GET request run to completion (a handler never yields): h is what
\* the endpoint's handler did with the query q1, q2 and the global n2
Serve(endpoint, q1, q2, h) ==
  /\ last' = [endpoint |-> endpoint, num1 |-> q1, num2 |-> q2,
              validate |-> h.validate, res |-> h.res, records |-> h.records,
              before |-> n2]
  /\ n2' = h.n2
  /\ log' = log \o Levels(h.records)
  /\ sent' = sent \o Statuses(h.res)
  /\ requests' = requests + 1
  /\ UNCHANGED listening

Add ==
  /\ listening
  /\ requests < MaxRequests
  /\ \E q1 \in PlainNum1, q2 \in PlainNum2 :
       Serve("/add", q1, q2, AddHandler(q1, q2, n2))

Sub ==
  /\ listening
  /\ requests < MaxRequests
  /\ \E q1 \in OtherNum1, q2 \in OtherNum2 :
       Serve("/sub", q1, q2, SubHandler(q1, q2, n2))

Mul ==
  /\ listening
  /\ requests < MaxRequests
  /\ \E q1 \in OtherNum1, q2 \in OtherNum2 :
       Serve("/mul", q1, q2, MulHandler(q1, q2, n2))

Div ==
  /\ listening
  /\ requests < MaxRequests
  /\ \E q1 \in DivNum1, q2 \in DivNum2 :
       Serve("/div", q1, q2, DivHandler(q1, q2, n2))

Exp ==
  /\ listening
  /\ requests < MaxRequests
  /\ \E q1 \in ExpNum1, q2 \in ExpNum2 :
       Serve("/exp", q1, q2, ExpHandler(q1, q2, n2))

Sqrt ==
  /\ listening
  /\ requests < MaxRequests
  /\ \E q1 \in SqrtNum1, q2 \in SqrtNum2 :
       Serve("/sqrt", q1, q2, SqrtHandler(q1, q2, n2))

Mod ==
  /\ listening
  /\ requests < MaxRequests
  /\ \E q1 \in ModNum1, q2 \in ModNum2 :
       Serve("/mod", q1, q2, ModHandler(q1, q2, n2))

Next == Listen \/ Add \/ Sub \/ Mul \/ Div \/ Exp \/ Sqrt \/ Mod

Spec == Init /\ [][Next]_vars

TypeOK ==
  /\ listening \in BOOLEAN
  /\ requests \in 0..MaxRequests
  /\ \A i \in 1..Len(sent) : sent[i] \in {200, 400}

\* ------------------------------------------------- the request handled last
Served == last.endpoint # "none"

\* the operator tag each handler passes to handleErrors
OperatorOf(endpoint) ==
  CASE endpoint = "/add" -> "+" [] endpoint = "/sub" -> "-"
    [] endpoint = "/mul" -> "*" [] endpoint = "/div" -> "/"
    [] endpoint = "/exp" -> "^" [] endpoint = "/sqrt" -> "sqrt"
    [] endpoint = "/mod" -> "%"

\* app.get(path, handler): the handler registered for an endpoint
Route(endpoint, q1, q2, g) ==
  CASE endpoint = "/add" -> AddHandler(q1, q2, g)
    [] endpoint = "/sub" -> SubHandler(q1, q2, g)
    [] endpoint = "/mul" -> MulHandler(q1, q2, g)
    [] endpoint = "/div" -> DivHandler(q1, q2, g)
    [] endpoint = "/exp" -> ExpHandler(q1, q2, g)
    [] endpoint = "/sqrt" -> SqrtHandler(q1, q2, g)
    [] endpoint = "/mod" -> ModHandler(q1, q2, g)

\* the operands the last request was validated with
Num1 == parseFloat(last.num1)

Num2 == IF last.endpoint = "/sqrt" THEN Zero(FALSE) ELSE parseFloat(last.num2)

Operator == OperatorOf(last.endpoint)

\* the last request got exactly the response r
Answered(r) == last.res = <<r>>

AnsweredOk == Len(last.res) = 1 /\ last.res[1].status = 200

AnsweredBad == Len(last.res) = 1 /\ last.res[1].status = 400

\* properties of a number's value, read off its digits
IsNumber(x) == x.kind # "nan"

Negative(x) == x.kind # "nan" /\ x.neg /\ ~IsZero(x)

MaxSafeDigits == <<9, 0, 0, 7, 1, 9, 9, 2, 5, 4, 7, 4, 0, 9, 9, 1>>

\* |x| > 2^53 - 1
BeyondSafe(x) ==
  \/ x.kind = "inf"
  \/ /\ x.kind = "fin" /\ x.digits # <<>>
     /\ \/ x.n > Len(MaxSafeDigits)
        \/ x.n = Len(MaxSafeDigits) /\ DigitsLess(MaxSafeDigits, x.digits)

InSafeRange(x) == IsNumber(x) /\ ~BeyondSafe(x)

\* x has a non-zero fractional part: digits beyond the decimal point
HasFraction(x) == x.kind = "fin" /\ Len(x.digits) > x.n

\* the six rules of the validator in their documented order
Rule(k, op, a, b) ==
  CASE k = 1 -> ~IsNumber(a) \/ ~IsNumber(b)
    [] k = 2 -> op = "/" \/ (op = "%" /\ IsZero(b))
    [] k = 3 -> (IsNumber(a) /\ BeyondSafe(a)) \/ (IsNumber(b) /\ BeyondSafe(b))
    [] k = 4 -> op = "^" /\ Negative(a) /\ FractionPattern(toString(b))
    [] k = 5 -> op = "^" /\ IsZero(a) /\ Negative(b) /\ FractionPattern(toString(b))
    [] k = 6 -> op = "sqrt" /\ Negative(a)

Matching == {k \in 1..6 : Rule(k, Operator, Num1, Num2)}

\* ---------------------------------------------------------------- claims

\* C1: whenever one or more rules match the operands of a request, the
\* validator returns the number of the first rule that matches, in the
\* order NotANumber(1), DivisionByZero(2), OutOfRange(3),
\* NegativeFractionalExponent(4), ZeroBaseNegativeFractionalExponent(5),
\* NegativeSquareRoot(6), and never a later one.
C1_FirstMatchWins ==
  (Served /\ Matching # {}) =>
    /\ last.validate \in Matching
    /\ \A k \in Matching : last.validate <= k

\* an out-of-range num1 on /mod with num2 = 0: rules 2 and 3 both match
C1_Witness ==
  /\ last.endpoint = "/mod"
  /\ {2, 3} \subseteq Matching
  /\ last.validate = 2

C3_OneResponse ==
  /\ Len(sent) = requests
  /\ Served =>
       /\ Len(last.res) = 1
       /\ \/ last.res[1].status = 200 /\ DOMAIN last.res[1].body = {"result"}
          \/ last.res[1].status = 400 /\ DOMAIN last.res[1].body = {"message"}

C3_Witness ==
  /\ requests = 2
  /\ sent = <<400, 200>>
  /\ last.endpoint = "/exp"

\* C4: a request is answered 200 if and only if the validator's outcome for
\* the endpoint's operation is Ok (0), and every other outcome is answered
\* 400 with the message of its error kind.
C4_OkIffAccepted ==
  Served =>
    /\ AnsweredOk <=> last.validate = 0
    /\ last.validate = 1 =>
         (Answered(Reject(BinaryNaNMessage)) \/ Answered(Reject("num1 must be a number")))
    /\ last.validate = 2 =>
         \/ Answered(Reject("Denominator cannot be 0 in division"))
         \/ Answered(Reject("Denominator cannot be 0 in modulo"))
    /\ last.validate = 3 =>
         \/ Answered(Reject(RangeMessage))
         \/ Answered(Reject("Numbers is too large or too small"))
    /\ last.validate = 4 =>
         Answered(Reject("If base is negative, exponent cannot be a fraction"))
    /\ last.validate = 5 =>
         Answered(Reject("If base is 0, exponent cannot be a negative fraction"))
    /\ last.validate = 6 =>
         Answered(Reject("Square root of negative numbers is not supported"))

LeftInN2 == {toString(parseFloat(t)) : t \in ExpNum2 \ {Absent}}

\* C6: the response to a request is a function of its endpoint and query
\* alone: it is the response the same request gets from a process that has
\* handled nothing, and the response it would get whatever an earlier
\* request had left in the global n2.
C6_ResponseOfRequestAlone ==
  Served =>
    \A g \in {Undeclared} \cup LeftInN2 :
      Route(last.endpoint, last.num1, last.num2, g).res = last.res

\* /exp with base -2 and exponent 3 is accepted although the request
\* before it left the fractional exponent "0.5" in n2
C6_Witness ==
  /\ last.endpoint = "/exp"
  /\ last.num1 = MinusTwoText /\ last.num2 = ThreeText
  /\ last.before = toString(parseFloat(HalfText))
  /\ n2 = toString(parseFloat(ThreeText))
  /\ AnsweredOk

\* the range message of the endpoint (/sqrt has its own wording)
RangeRejection ==
  IF last.endpoint = "/sqrt" THEN Reject("Numbers is too large or too small")
  ELSE Reject(RangeMessage)

\* C7: on /add, /sub, /mul, /exp, /sqrt, and /mod with num2 not 0, when
\* every operand is a number, the request is answered 400 with the
\* too-large-or-too-small message exactly when an operand is greater than
\* 2^53 - 1 or less than -(2^53 - 1), infinities included; operands equal
\* to 2^53 - 1 or -(2^53 - 1) are accepted by the range check, and the
\* placeholder 0 of /sqrt never causes the rejection.
C7_OutOfRange ==
  (/\ Served
   /\ last.endpoint # "/div"
   /\ last.endpoint = "/mod" => ~IsZero(Num2)
   /\ IsNumber(Num1) /\ IsNumber(Num2)) =>
    /\ Answered(RangeRejection) <=> (BeyondSafe(Num1) \/ BeyondSafe(Num2))
    /\ last.validate = 3 <=> (BeyondSafe(Num1) \/ BeyondSafe(Num2))
    /\ last.endpoint = "/sqrt" => (last.validate = 3 <=> BeyondSafe(Num1))

\* 2^53 - 1 itself is accepted: /add?num1=9007199254740991&num2=3
C7_Witness ==
  /\ last.endpoint = "/add"
  /\ last.num1 = MaxSafeText /\ last.num2 = ThreeText
  /\ AnsweredOk

\* C8: on /exp with both operands numbers in the safe range, the response
\* is 400 "If base is negative, exponent cannot be a fraction" exactly when
\* the base is negative and the exponent has a non-zero fractional part,
\* 400 "If base is 0, exponent cannot be a negative fraction" exactly when
\* the base is zero and the exponent is negative with a fractional part,
\* and 200 with num1 ^ num2 in every other case.
C8_ExponentDomain ==
  (/\ last.endpoint = "/exp"
   /\ InSafeRange(Num1) /\ InSafeRange(Num2)) =>
    /\ Answered(Reject("If base is negative, exponent cannot be a fraction"))
         <=> (Negative(Num1) /\ HasFraction(Num2))
    /\ Answered(Reject("If base is 0, exponent cannot be a negative fraction"))
         <=> (IsZero(Num1) /\ Negative(Num2) /\ HasFraction(Num2))
    /\ ~(Negative(Num1) /\ HasFraction(Num2))
         /\ ~(IsZero(Num1) /\ Negative(Num2) /\ HasFraction(Num2))
         => Answered(Accept(Compute("^", Num1, Num2)))
    /\ (last.num1 = TwoText /\ last.num2 = ThreeText) => Answered(Accept(FromInt(8)))

\* a text with no digit in it, or no parameter at all
NonNumeric(t) == t = Absent \/ \A i \in 1..Len(t) : t[i] \notin DigitChars

\* C9: on /sqrt a num1 in the safe range and negative is answered 400
\* "Square root of negative numbers is not supported", one in the safe range
\* and not negative is answered 200 with its square root (16 gives 4), a
\* missing or non-numeric one is answered 400 "num1 must be a number", all
\* of it whatever num2 the query carries; and no other endpoint ever gets
\* the outcome NegativeSquareRoot (6).
C9_SquareRoot ==
  /\ last.endpoint = "/sqrt" =>
       /\ (InSafeRange(Num1) /\ Negative(Num1)) =>
            Answered(Reject("Square root of negative numbers is not supported"))
       /\ (InSafeRange(Num1) /\ ~Negative(Num1)) =>
            Answered(Accept(Compute("sqrt", Num1, Zero(FALSE))))
       /\ last.num1 = SixteenText => Answered(Accept(FromInt(4)))
       /\ NonNumeric(last.num1) => Answered(Reject("num1 must be a number"))
  /\ (Served /\ last.validate = 6) => last.endpoint = "/sqrt"

\* /sqrt?num1=16&num2=abc is answered 4: num2 is not looked at
C9_Witness ==
  /\ last.endpoint = "/sqrt"
  /\ last.num1 = SixteenText /\ last.num2 = abcText
  /\ Answered(Accept(FromInt(4)))

\* C10: the validator always returns one of the outcomes 0..6, and returns
\* Ok (0) whenever no rule matches, for every operation tag.
C10_AlwaysAnOutcome ==
  Served =>
    /\ last.validate \in 0..6
    /\ Matching = {} => last.validate = 0

====
